---- MODULE Spec2Model ----
(***************************************************************************)
(* A model of pyconductor's ConductorWorker (src/pyconductor/              *)
(* ConductorWorker.py): the execute / poll_and_execute / start / consume   *)
(* methods, the placeholder function exc and the entry point main, run     *)
(* against a task server that answers pollForTask, ackTask and updateTask. *)
(***************************************************************************)
EXTENDS Integers, Sequences, FiniteSets, TLC

(* ------------------------------ bounds --------------------------------- *)

\* Number of tasks the server holds when the worker starts.
NumTasks == 2

\* Largest thread_count a caller of start passes to the constructor.
MaxThreads == 2

\* main constructs its worker with thread_count 5 (line 109); the model runs
\* main with this many pollers per start call instead.
MainThreads == 1

\* The counters of consume's remote calls stop counting at this value.
MaxCount == 2

(* --------------------------- Python values ----------------------------- *)

\* A number is held as its count of halves, so that 0.5 and 1.5 exist: h
\* stands for h/2.

\* float(v): the value is kept.
PyFloat(h) == h

\* int(f): truncation towards zero.
PyInt(h) == IF h >= 0 THEN h \div 2 ELSE -((-h) \div 2)

\* The float of a whole number n.
Whole(n) == 2 * n

\* range(0, n) has max(n, 0) elements.
RangeLen(n) == IF n > 0 THEN n ELSE 0

\* The thread_count arguments tried: -1.0, -0.5, 0, 0.5, ..., MaxThreads.
ThreadCountArgs == Whole(-1)..Whole(MaxThreads)

\* Variant: only None counts as falsy.
Truthy_NotNone(v) == v # "None"

\* Python's truth value of what ackTask returned (the `if` of lines 69, 98).
Truthy(v) == v \notin {"False", "None"}

(* ------------------------------ tasks ---------------------------------- *)

Tasks == 1..NumTasks

\* The task types are "A" and "B": sys.argv[1] and sys.argv[2] of main.

Unset == "unset"

Absent == "absent"

\* The value of `polled` when pollForTask returned None.
NoTask ==
    [taskId |-> 0, taskType |-> "None", status |-> Unset,
     outputData |-> Unset, logs |-> Unset]

NoResp == [type |-> "none", status |-> Absent, output |-> Absent, logs |-> Absent]

Raised == [type |-> "raised", status |-> Absent, output |-> Absent, logs |-> Absent]

\* The task the server hands out for id t of type ty.
ServerTask(t, ty) ==
    [taskId |-> t, taskType |-> ty, status |-> "SCHEDULED",
     outputData |-> Unset, logs |-> Unset]

(* ----------------------- execution functions --------------------------- *)

Statuses == {"COMPLETED", "FAILED", "IN_PROGRESS"}

\* What a caller-supplied function may return: a dict holding the three
\* keys, a dict that lacks some of them, a mapping that is not a dict (an
\* OrderedDict) holding the three keys, or a value that is no mapping (None).
\* A key that is missing holds Absent.
UserResults ==
    { [type |-> "dict", status |-> st, output |-> "{}", logs |-> "[]"] :
        st \in Statuses \ {"COMPLETED"} }
    \cup
    { [type |-> "dict", status |-> "COMPLETED", output |-> "{x:1}", logs |-> "[]"],
      [type |-> "dict", status |-> Absent, output |-> "{x:1}", logs |-> "[]"],
      [type |-> "dict", status |-> "COMPLETED", output |-> Absent, logs |-> "[]"],
      [type |-> "dict", status |-> "COMPLETED", output |-> "{x:1}", logs |-> Absent],
      [type |-> "dict", status |-> Absent, output |-> "{}", logs |-> Absent],
      [type |-> "OrderedDict", status |-> "COMPLETED", output |-> "{x:1}",
       logs |-> "[]"],
      [type |-> "NoneType", status |-> Absent, output |-> Absent, logs |-> Absent] }

\* exc takes seven positional parameters.
ExcArity == 7

\* What exc returns when it is called with ExcArity arguments.
exc == [type |-> "dict", status |-> "COMPLETED", output |-> "{}", logs |-> Absent]

\* The outcomes of exec_function(task), a call with nargs = 1 argument:
\* a returned value, or Raised.
Call(fn, nargs) ==
    IF fn = "exc"
    THEN (IF nargs = ExcArity THEN {exc} ELSE {Raised})
    ELSE UserResults \cup {Raised}

\* all(key in resp for key in ('status', 'output', 'logs'))
HasKeys(resp) ==
    resp.status # Absent /\ resp.output # Absent /\ resp.logs # Absent

\* The negation of line 53's test: type(resp) is dict and all keys present.
IsValid(resp) == resp.type = "dict" /\ HasKeys(resp)

\* Variant: output and logs exchanged.
CopyResult_Swapped(task, resp) ==
    [task EXCEPT !.status = resp.status, !.outputData = resp.logs,
                 !.logs = resp.output]

\* Variant: the status is not copied.
CopyResult_NoStatus(task, resp) ==
    [task EXCEPT !.outputData = resp.output, !.logs = resp.logs]

\* Lines 55-57.
CopyResult(task, resp) ==
    [task EXCEPT !.status = resp.status, !.outputData = resp.output,
                 !.logs = resp.logs]

\* Variant: the status is left as it is.
MarkFailed_Keep(task) == task

\* Line 61.
MarkFailed(task) == [task EXCEPT !.status = "FAILED"]

(* ------------------------------ server --------------------------------- *)

\* pollForTask(taskType, workerId, domain): one of the queued tasks of the
\* type, none when there is none, or an error.
pollForTask(q, types, ty) ==
    LET avail == {t \in q : types[t] = ty} IN
    {[kind |-> "raise", task |-> NoTask]}
    \cup (IF avail = {}
          THEN {[kind |-> "return", task |-> NoTask]}
          ELSE {[kind |-> "return", task |-> ServerTask(t, ty)] : t \in avail})

\* ackTask(taskId, workerId): an error, a falsy value (the task stays
\* queued) or, for a task still queued, a truthy value (the task leaves the
\* queue).
ackTask(q, t) ==
    {[kind |-> "raise", value |-> "None", queue |-> q]}
    \cup {[kind |-> "return", value |-> v, queue |-> q] : v \in {"False", "None"}}
    \cup (IF t \in q
          THEN {[kind |-> "return", value |-> "True", queue |-> q \ {t}]}
          ELSE {})

\* updateTask(task): returns normally or raises.
updateTask == {"return", "raise"}

(* ------------------------------ state ---------------------------------- *)

VARIABLES
    entry,          \* what the calling thread runs: "start", "consume", "main"
    thread_count,   \* self.thread_count
    exec_function,  \* "user": a caller-supplied function; "exc": the placeholder
    taskType,       \* the taskType argument of the running start / consume
    wait,           \* the wait argument of the running start
    callerPc,       \* where the calling thread is
    x,              \* the loop variable of start: pollers spawned by this call
    mainStep,       \* 0 outside main; in main, which start call runs (1 or 2)
    consumePolled,  \* consume's local `polled`
    consumeLog,     \* what consume has done: remote calls and spawns counted
    limit,          \* the limit argument of consume
    check_existing_tasks,   \* the check_existing_tasks argument of consume
    threads,        \* the threads spawned, in spawning order
    queue,          \* server: the tasks not yet acknowledged
    taskTypeOf,     \* server: the type of each task
    executed        \* per task, the calls of execute made for it so far

vars ==
    <<entry, thread_count, exec_function, taskType, wait, callerPc, x, mainStep,
      consumePolled, consumeLog, limit, check_existing_tasks, threads, queue,
      taskTypeOf, executed>>

config ==
    <<entry, thread_count, exec_function, taskTypeOf, limit,
      check_existing_tasks>>

\* The limit arguments tried: the default 0, and 1.
LimitArgs == {0, 1}

\* Counting up to MaxCount.
Inc(n) == IF n < MaxCount THEN n + 1 ELSE n

Max(a, b) == IF a >= b THEN a ELSE b

\* The largest number of threads a run spawns: the pollers of one start, the
\* pollers of main's two starts, or one execute thread per task of consume.
MaxThreadIds == Max(MaxThreads, Max(2 * MainThreads, NumTasks))

\* A thread spawned by start (target poll_and_execute) begins at the sleep of
\* line 66; one spawned by consume (target execute, args polled) begins at
\* execute.
NewThread(kind, ty, task, ack) ==
    [kind |-> kind, pc |-> IF kind = "poller" THEN "sleep" ELSE "execute",
     taskType |-> ty, task |-> task, polled |-> task,
     ack |-> ack,
     resp |-> NoResp, calls |-> <<>>,
     inv |-> IF kind = "poller" THEN "none" ELSE "running"]

Pollers == {i \in DOMAIN threads : threads[i].kind = "poller"}

Executors == {i \in DOMAIN threads : threads[i].kind = "execute"}

Init ==
    /\ entry \in {"start", "consume", "main"}
    /\ thread_count \in
         (IF entry = "start" THEN {PyFloat(a) : a \in ThreadCountArgs}
          ELSE IF entry = "main" THEN {PyFloat(Whole(MainThreads))}
          ELSE {PyFloat(Whole(1))})
    /\ exec_function = (IF entry = "main" THEN "exc" ELSE "user")
    /\ taskType = "A"
    /\ wait \in (IF entry = "start" THEN BOOLEAN ELSE {FALSE})
    /\ callerPc = (IF entry = "consume" THEN "consume_poll" ELSE "start_loop")
    /\ x = 0
    /\ mainStep = (IF entry = "main" THEN 1 ELSE 0)
    /\ consumePolled = NoTask
    /\ limit \in (IF entry = "consume" THEN LimitArgs ELSE {0})
    /\ check_existing_tasks \in (IF entry = "consume" THEN BOOLEAN ELSE {TRUE})
    /\ consumeLog = [polls |-> 0, acks |-> 0, spawns |-> 0,
                     none |-> FALSE, after |-> FALSE]
    /\ threads = <<>>
    /\ queue = Tasks
    /\ executed = [t \in Tasks |-> 0]
    /\ \E k \in 0..NumTasks :
         taskTypeOf = [t \in Tasks |-> IF t <= k THEN "A" ELSE "B"]

(* ------------------------------ execute -------------------------------- *)

\* Variant: the keys the result holds are copied before it is validated.
Try_CopyFirst(task, resp, out) ==
    IF resp # Raised /\ IsValid(resp)
    THEN [task |-> CopyResult(task, resp),
          calls |-> <<CopyResult(task, resp)>>,
          caught |-> (out = "raise")]
    ELSE [task |-> [task EXCEPT
                      !.outputData = IF resp.output # Absent THEN resp.output ELSE @,
                      !.logs = IF resp.logs # Absent THEN resp.logs ELSE @],
          calls |-> <<>>, caught |-> TRUE]

\* The try block, lines 52-58, for the outcome resp of exec_function(task)
\* and the outcome out of line 58's updateTask: the task as it leaves the
\* block, the updateTask calls made, and whether an Exception was raised in
\* it (by exec_function, by line 54, or by updateTask).
Try(task, resp, out) ==
    IF resp # Raised /\ IsValid(resp)
    THEN [task |-> CopyResult(task, resp),
          calls |-> <<CopyResult(task, resp)>>,
          caught |-> (out = "raise")]
    ELSE [task |-> task, calls |-> <<>>, caught |-> TRUE]

\* Variant: the handler does not call updateTask.
Except_NoUpdate(r, out) ==
    [task |-> MarkFailed(r.task), calls |-> r.calls, inv |-> "returned"]

\* The handler, lines 59-62, entered from the try block's state r, for the
\* outcome out of line 62's updateTask: an error of it leaves execute.
Except(r, out) ==
    [task |-> MarkFailed(r.task),
     calls |-> Append(r.calls, MarkFailed(r.task)),
     inv |-> IF out = "return" THEN "returned" ELSE "raised"]

\* execute(task, exec_function), lines 50-62.
execute(task, resp, out58, out62) ==
    LET r == Try(task, resp, out58) IN
    IF r.caught
    THEN Except(r, out62)
    ELSE [task |-> r.task, calls |-> r.calls, inv |-> "returned"]

\* Variant: a poller whose execute took the except branch leaves its loop.
Execute_LeaveLoop(i) ==
    /\ threads[i].pc = "execute"
    /\ \E resp \in Call(exec_function, 1) :
       \E out58 \in updateTask :
       \E out62 \in updateTask :
         LET th == threads[i]
             e == execute(th.task, resp, out58, out62)
         IN threads' = [threads EXCEPT ![i] =
              [th EXCEPT !.resp = resp, !.task = e.task, !.calls = e.calls,
                         !.inv = e.inv,
                         !.pc = IF e.inv = "raised" THEN "dead"
                                ELSE IF th.kind = "poller" /\ IsValid(resp)
                                THEN "sleep"
                                ELSE "finished"]]
    /\ executed' = [executed EXCEPT ![threads[i].task.taskId] = Inc(@)]
    /\ UNCHANGED <<config, taskType, wait, callerPc, x, mainStep, consumePolled,
                   consumeLog, queue>>

\* A thread runs execute: called from poll_and_execute's loop (line 70), to
\* which it returns, or as the target of a thread consume spawned (line 99),
\* which it ends.  An error that leaves execute ends the thread.
Execute(i) ==
    /\ threads[i].pc = "execute"
    /\ \E resp \in Call(exec_function, 1) :
       \E out58 \in updateTask :
       \E out62 \in updateTask :
         LET th == threads[i]
             e == execute(th.task, resp, out58, out62)
         IN threads' = [threads EXCEPT ![i] =
              [th EXCEPT !.resp = resp, !.task = e.task, !.calls = e.calls,
                         !.inv = e.inv,
                         !.pc = IF e.inv = "raised" THEN "dead"
                                ELSE IF th.kind = "poller" THEN "sleep"
                                ELSE "finished"]]
    /\ executed' = [executed EXCEPT ![threads[i].task.taskId] = Inc(@)]
    /\ UNCHANGED <<config, taskType, wait, callerPc, x, mainStep, consumePolled,
                   consumeLog, queue>>

(* -------------------------- poll_and_execute --------------------------- *)

\* Line 66: the sleep that opens every iteration.  The locals of the last
\* iteration are dead from here on.
Sleep(i) ==
    /\ threads[i].pc = "sleep"
    /\ threads' = [threads EXCEPT ![i] =
         [@ EXCEPT !.pc = "poll", !.task = NoTask, !.polled = NoTask,
                   !.ack = "-", !.resp = NoResp, !.calls = <<>>,
                   !.inv = "none"]]
    /\ UNCHANGED <<config, taskType, wait, callerPc, x, mainStep, consumePolled,
                   consumeLog, queue, executed>>

\* Lines 67-68.  An error of pollForTask ends the thread.
Poll(i) ==
    /\ threads[i].pc = "poll"
    /\ \E out \in pollForTask(queue, taskTypeOf, threads[i].taskType) :
         threads' = [threads EXCEPT ![i] =
           IF out.kind = "raise" THEN [@ EXCEPT !.pc = "dead"]
           ELSE IF out.task = NoTask THEN [@ EXCEPT !.pc = "sleep"]
           ELSE [@ EXCEPT !.pc = "ack", !.task = out.task, !.polled = out.task]]
    /\ UNCHANGED <<config, taskType, wait, callerPc, x, mainStep, consumePolled,
                   consumeLog, queue, executed>>

\* Variant: execute is handed to a new thread, as consume does, and the loop
\* goes on.
Ack_Async(i) ==
    /\ threads[i].pc = "ack"
    /\ \E out \in ackTask(queue, threads[i].task.taskId) :
         /\ queue' = out.queue
         /\ threads' =
              IF out.kind = "raise"
              THEN [threads EXCEPT ![i] =
                      [@ EXCEPT !.pc = "dead", !.task = NoTask, !.polled = NoTask]]
              ELSE IF Truthy(out.value)
              THEN Append([threads EXCEPT ![i] =
                             [@ EXCEPT !.ack = out.value, !.pc = "sleep"]],
                          NewThread("execute", threads[i].taskType,
                                    threads[i].task, out.value))
              ELSE [threads EXCEPT ![i] =
                      [@ EXCEPT !.ack = out.value, !.pc = "sleep",
                                !.task = NoTask, !.polled = NoTask]]
    /\ UNCHANGED <<config, taskType, wait, callerPc, x, mainStep, consumePolled,
                   consumeLog, executed>>

\* Variant: execute is entered whatever ackTask returned.
Ack_NoCheck(i) ==
    /\ threads[i].pc = "ack"
    /\ \E out \in ackTask(queue, threads[i].task.taskId) :
         /\ queue' = out.queue
         /\ threads' = [threads EXCEPT ![i] =
              IF out.kind = "raise"
              THEN [@ EXCEPT !.pc = "dead", !.task = NoTask, !.polled = NoTask]
              ELSE [@ EXCEPT !.ack = out.value, !.pc = "execute",
                             !.inv = "running"]]
    /\ UNCHANGED <<config, taskType, wait, callerPc, x, mainStep, consumePolled,
                   consumeLog, executed>>

\* Lines 69-70: ackTask, and the entry into execute when it is truthy.  An
\* error of ackTask ends the thread; after a falsy value the iteration is
\* over and `polled` is not read again.
Ack(i) ==
    /\ threads[i].pc = "ack"
    /\ \E out \in ackTask(queue, threads[i].task.taskId) :
         /\ queue' = out.queue
         /\ threads' = [threads EXCEPT ![i] =
              IF out.kind = "raise"
              THEN [@ EXCEPT !.pc = "dead", !.task = NoTask, !.polled = NoTask]
              ELSE IF Truthy(out.value)
              THEN [@ EXCEPT !.ack = out.value, !.pc = "execute", !.inv = "running"]
              ELSE [@ EXCEPT !.ack = out.value, !.pc = "sleep", !.task = NoTask,
                             !.polled = NoTask]]
    /\ UNCHANGED <<config, taskType, wait, callerPc, x, mainStep, consumePolled,
                   consumeLog, executed>>

(* ------------------------------- start --------------------------------- *)

\* Variant: one poller too many.
SpawnCount_PlusOne == RangeLen(PyInt(thread_count)) + 1

\* The length of line 74's range(0, int(self.thread_count)).
SpawnCount == RangeLen(PyInt(thread_count))

\* Lines 74-77: one more poller.
StartSpawn ==
    /\ callerPc = "start_loop"
    /\ x < SpawnCount
    /\ threads' = Append(threads, NewThread("poller", taskType, NoTask, "-"))
    /\ x' = x + 1
    /\ UNCHANGED <<config, taskType, wait, callerPc, mainStep, consumePolled,
                   consumeLog, queue, executed>>

\* Line 78: after the loop, park or return.
StartEnd ==
    /\ callerPc = "start_loop"
    /\ x >= SpawnCount
    /\ callerPc' = IF wait THEN "start_wait" ELSE "returned"
    /\ UNCHANGED <<config, taskType, wait, x, mainStep, consumePolled,
                   consumeLog, threads, queue, executed>>

\* Variant: the parked caller returns once no poller is left alive.
StartWait_UntilPollersEnd ==
    /\ callerPc = "start_wait"
    /\ callerPc' = IF \A i \in Pollers : threads[i].pc = "dead"
                   THEN "returned" ELSE "start_wait"
    /\ UNCHANGED <<config, taskType, wait, x, mainStep, consumePolled,
                   consumeLog, threads, queue, executed>>

\* Lines 79-80: while 1: time.sleep(1).
StartWait ==
    /\ callerPc = "start_wait"
    /\ UNCHANGED vars

(* ------------------------------ consume -------------------------------- *)

\* Variant: consume polls again only when no execution is in flight.
ConsumePollWith_Join(lim, chk) ==
    /\ callerPc = "consume_poll"
    /\ \A i \in Executors : threads[i].pc # "execute"
    /\ \E out \in pollForTask(queue, taskTypeOf, taskType) :
         /\ callerPc' = IF out.kind = "raise" THEN "raised"
                        ELSE IF out.task = NoTask THEN "returned"
                        ELSE "consume_ack"
         /\ consumePolled' = out.task
         /\ consumeLog' = [consumeLog EXCEPT
              !.polls = Inc(@),
              !.none = @ \/ (out.kind = "return" /\ out.task = NoTask),
              !.after = @ \/ consumeLog.none]
    /\ UNCHANGED <<config, taskType, wait, x, mainStep, threads, queue, executed>>

\* Lines 95-97, for a call consume(taskType, exec_function, domain, lim,
\* chk): neither argument is read.
ConsumePollWith(lim, chk) ==
    /\ callerPc = "consume_poll"
    /\ \E out \in pollForTask(queue, taskTypeOf, taskType) :
         /\ callerPc' = IF out.kind = "raise" THEN "raised"
                        ELSE IF out.task = NoTask THEN "returned"
                        ELSE "consume_ack"
         /\ consumePolled' = out.task
         /\ consumeLog' = [consumeLog EXCEPT
              !.polls = Inc(@),
              !.none = @ \/ (out.kind = "return" /\ out.task = NoTask),
              !.after = @ \/ consumeLog.none]
    /\ UNCHANGED <<config, taskType, wait, x, mainStep, threads, queue, executed>>

\* Variant: consume stops once it has spawned lim threads (lim > 0).
ConsumeAckWith_Limit(lim, chk) ==
    /\ callerPc = "consume_ack"
    /\ \E out \in ackTask(queue, consumePolled.taskId) :
         LET go == out.kind = "return" /\ Truthy(out.value) IN
         /\ queue' = out.queue
         /\ callerPc' = IF out.kind = "raise" THEN "raised"
                        ELSE IF go /\ lim > 0 /\ Inc(consumeLog.spawns) >= lim
                        THEN "returned"
                        ELSE "consume_poll"
         /\ threads' = IF go
                       THEN Append(threads, NewThread("execute", taskType,
                                                     consumePolled, out.value))
                       ELSE threads
         /\ consumeLog' = [consumeLog EXCEPT
              !.acks = Inc(@),
              !.spawns = IF go THEN Inc(@) ELSE @,
              !.after = @ \/ consumeLog.none]
    /\ UNCHANGED <<config, taskType, wait, x, mainStep, consumePolled, executed>>

\* Lines 98-100, for the same call: ackTask and, when it is truthy, a new
\* thread running execute(polled, exec_function).
ConsumeAckWith(lim, chk) ==
    /\ callerPc = "consume_ack"
    /\ \E out \in ackTask(queue, consumePolled.taskId) :
         LET go == out.kind = "return" /\ Truthy(out.value) IN
         /\ queue' = out.queue
         /\ callerPc' = IF out.kind = "raise" THEN "raised" ELSE "consume_poll"
         /\ threads' = IF go
                       THEN Append(threads, NewThread("execute", taskType,
                                                     consumePolled, out.value))
                       ELSE threads
         /\ consumeLog' = [consumeLog EXCEPT
              !.acks = Inc(@),
              !.spawns = IF go THEN Inc(@) ELSE @,
              !.after = @ \/ consumeLog.none]
    /\ UNCHANGED <<config, taskType, wait, x, mainStep, consumePolled, executed>>

\* Variant: an empty poll does not leave the loop.
ConsumePoll_Continue ==
    /\ callerPc = "consume_poll"
    /\ \E out \in pollForTask(queue, taskTypeOf, taskType) :
         /\ callerPc' = IF out.kind = "raise" THEN "raised"
                        ELSE IF out.task = NoTask THEN "consume_poll"
                        ELSE "consume_ack"
         /\ consumePolled' = out.task
         /\ consumeLog' = [consumeLog EXCEPT
              !.polls = Inc(@),
              !.none = @ \/ (out.kind = "return" /\ out.task = NoTask),
              !.after = @ \/ consumeLog.none]
    /\ UNCHANGED <<config, taskType, wait, x, mainStep, threads, queue, executed>>

\* The poll of the running consume call.
ConsumePoll == ConsumePollWith(limit, check_existing_tasks)

\* The ackTask of the running consume call.
ConsumeAck == ConsumeAckWith(limit, check_existing_tasks)

(* -------------------------------- main --------------------------------- *)

\* Lines 110-111: the first start (wait False) has returned; the second one,
\* for sys.argv[2] and with wait True, begins.
MainSecondStart ==
    /\ mainStep = 1
    /\ callerPc = "returned"
    /\ mainStep' = 2
    /\ taskType' = "B"
    /\ wait' = TRUE
    /\ x' = 0
    /\ callerPc' = "start_loop"
    /\ UNCHANGED <<config, consumePolled, consumeLog, threads, queue, executed>>

(* --------------------------- specifications ---------------------------- *)

ThreadStep(i) ==
    \/ Sleep(i)
    \/ Poll(i)
    \/ Ack(i)
    \/ Execute(i)

CallerStep ==
    \/ StartSpawn
    \/ StartEnd
    \/ StartWait
    \/ ConsumePoll
    \/ ConsumeAck
    \/ MainSecondStart

Next ==
    \/ CallerStep
    \/ \E i \in DOMAIN threads : ThreadStep(i)

Spec == Init /\ [][Next]_vars

\* Every thread that can take a step eventually takes one.
FairSpec ==
    /\ Spec
    /\ WF_vars(CallerStep)
    /\ \A i \in 1..MaxThreadIds : WF_vars(i \in DOMAIN threads /\ ThreadStep(i))

(* ---------------------------- properties ------------------------------- *)

\* A mapping (a dict or another mapping type) that holds the three keys.
IsMappingWithKeys(resp) ==
    resp.type \in {"dict", "OrderedDict"} /\ HasKeys(resp)

\* The execute invocation of thread i has ended, by returning or by an error.
Ended(i) == threads[i].inv \in {"returned", "raised"}

\* The polled task with status, outputData and logs taken from resp.
Expected(polled, resp) ==
    [taskId |-> polled.taskId, taskType |-> polled.taskType,
     status |-> resp.status, outputData |-> resp.output, logs |-> resp.logs]

\* C1: every invocation of execute makes exactly one updateTask call: never
\* more than one while it runs, and exactly one once it has ended, whatever
\* exec_function and updateTask do.
C1_ExactlyOneUpdate ==
    \A i \in DOMAIN threads :
        /\ Len(threads[i].calls) <= 1
        /\ Ended(i) => Len(threads[i].calls) = 1

\* C2 as stated: for a result that is a mapping holding status, output and
\* logs, the task execute hands to updateTask is the polled task with
\* status, outputData and logs taken from the result.
C2_MappingResultReported ==
    \A i \in DOMAIN threads :
        (IsMappingWithKeys(threads[i].resp) /\ threads[i].calls # <<>>)
            => threads[i].calls[1] = Expected(threads[i].polled, threads[i].resp)

\* C2 amended: for a result whose type is exactly dict and that holds the
\* three keys, the first updateTask call of the invocation (line 58)
\* receives the polled task with status, outputData and logs taken from the
\* result and every other field unchanged.
C2_DictResultReported ==
    \A i \in DOMAIN threads :
        (threads[i].resp.type = "dict" /\ HasKeys(threads[i].resp))
            => /\ threads[i].calls # <<>>
               /\ threads[i].calls[1] =
                    Expected(threads[i].polled, threads[i].resp)

C2_Witness ==
    \E i \in DOMAIN threads :
        /\ threads[i].polled.taskId = 1
        /\ threads[i].resp =
             [type |-> "dict", status |-> "COMPLETED", output |-> "{x:1}",
              logs |-> "[]"]
        /\ threads[i].inv = "returned"
        /\ threads[i].calls =
             <<[taskId |-> 1, taskType |-> "A", status |-> "COMPLETED",
                outputData |-> "{x:1}", logs |-> "[]"]>>

\* C3: when exec_function raised, or returned something that is no mapping
\* or lacks one of the three keys, execute calls updateTask exactly once,
\* for the polled task, with status FAILED.
C3_FailureReportedOnce ==
    \A i \in DOMAIN threads :
        (threads[i].resp # NoResp /\ ~IsMappingWithKeys(threads[i].resp))
            => /\ Len(threads[i].calls) <= 1
               /\ \A k \in 1..Len(threads[i].calls) :
                    /\ threads[i].calls[k].status = "FAILED"
                    /\ threads[i].calls[k].taskId = threads[i].polled.taskId
               /\ Ended(i) => Len(threads[i].calls) = 1

C3_Witness ==
    \E i \in DOMAIN threads :
        /\ threads[i].resp =
             [type |-> "dict", status |-> Absent, output |-> "{}", logs |-> Absent]
        /\ Ended(i)
        /\ Len(threads[i].calls) = 1
        /\ threads[i].calls[1].status = "FAILED"

\* C4: a thread is inside execute (calling exec_function or updateTask), or
\* has been, only for a task whose ackTask returned a truthy value to it;
\* after a falsy ackTask the poll result is dropped without execution.
C4_ExecuteOnlyAfterAck ==
    \A i \in DOMAIN threads :
        /\ (\/ threads[i].pc \in {"execute", "finished"}
            \/ threads[i].inv # "none"
            \/ threads[i].resp # NoResp
            \/ threads[i].calls # <<>>)
              => /\ Truthy(threads[i].ack)
                 /\ threads[i].task.taskId = threads[i].polled.taskId
                 /\ threads[i].task.taskId \in Tasks \ queue
        /\ (threads[i].ack # "-" /\ ~Truthy(threads[i].ack))
              => /\ threads[i].pc = "sleep"
                 /\ threads[i].inv = "none"
                 /\ threads[i].calls = <<>>
                 /\ threads[i].resp = NoResp

C4_Witness ==
    /\ \E i \in Pollers :
         threads[i].pc = "sleep" /\ threads[i].ack = "False"
    /\ \E j \in Pollers : threads[j].pc = "execute" /\ threads[j].ack = "True"

\* C5 as stated: every task handed to updateTask has status COMPLETED or
\* FAILED.
C5_StatusClosedSet ==
    \A i \in DOMAIN threads :
        \A k \in 1..Len(threads[i].calls) :
            threads[i].calls[k].status \in {"COMPLETED", "FAILED"}

\* C5 amended: every task handed to updateTask has a status that is set:
\* FAILED, or the status of exec_function's well-formed result, whatever
\* that value is.
C5_StatusFailedOrResult ==
    \A i \in DOMAIN threads :
        \A k \in 1..Len(threads[i].calls) :
            /\ threads[i].calls[k].status \notin {Unset, Absent, "SCHEDULED"}
            /\ \/ threads[i].calls[k].status = "FAILED"
               \/ /\ k = 1
                  /\ IsValid(threads[i].resp)
                  /\ threads[i].calls[k].status = threads[i].resp.status

C5_Witness ==
    \E i \in DOMAIN threads :
        /\ threads[i].calls # <<>>
        /\ threads[i].calls[1].status = "IN_PROGRESS"

\* C6: every acknowledged task is eventually handed to updateTask: a thread
\* that has entered execute eventually makes an updateTask call for the task
\* it polled.
C6_AckedEventuallyReported ==
    \A i \in 1..MaxThreadIds :
        (i \in DOMAIN threads /\ threads[i].inv = "running")
            ~> (/\ i \in DOMAIN threads
                /\ threads[i].calls # <<>>
                /\ threads[i].calls[1].taskId = threads[i].polled.taskId)

C6_Witness ==
    /\ \E i \in Executors : threads[i].resp = Raised /\ threads[i].calls # <<>>
    /\ \E j \in Executors :
         threads[j].resp.type = "NoneType" /\ threads[j].calls # <<>>

\* C7: once a pollForTask of consume has returned none, consume has returned
\* and has made no further pollForTask or ackTask call and spawned no
\* thread; when that was its first poll, it has made no ackTask call and no
\* thread exists.
C7_ConsumeStopsAtEmptyPoll ==
    /\ ~consumeLog.after
    /\ consumeLog.none =>
         /\ callerPc = "returned"
         /\ consumeLog.polls = 1 =>
              consumeLog.acks = 0 /\ consumeLog.spawns = 0 /\ threads = <<>>

C7_Witness ==
    /\ entry = "consume"
    /\ consumeLog.none
    /\ consumeLog.polls = 2
    /\ consumeLog.spawns = 1
    /\ callerPc = "returned"

\* C8: every invocation of consume eventually returns control to its caller
\* (normally or with an error).
C8_ConsumeReturns ==
    (entry = "consume") => <>(callerPc \in {"returned", "raised"})

\* C9: a start call on a worker with thread_count N (a whole number, N >= 0)
\* that is past its spawning loop has spawned exactly N pollers, and is
\* parked when wait is true and has returned when wait is false; while it
\* spawns, the pollers are the x spawned so far.
C9_StartSpawnsN ==
    \A N \in 0..MaxThreads :
        (entry = "start" /\ thread_count = PyFloat(Whole(N)))
            => /\ Cardinality(Pollers) = Len(threads)
               /\ callerPc = "start_loop" => Len(threads) = x /\ x <= N
               /\ callerPc # "start_loop" =>
                    /\ Len(threads) = N
                    /\ callerPc = (IF wait THEN "start_wait" ELSE "returned")

C9_Witness ==
    /\ entry = "start"
    /\ thread_count = PyFloat(Whole(2))
    /\ ~wait
    /\ callerPc = "returned"
    /\ Len(threads) = 2
    /\ threads[1].pc = "execute"
    /\ threads[2].pc = "ack"

\* C10: every task the pollers of main hand to updateTask has status
\* COMPLETED and empty output.
C10_MainReportsCompleted ==
    entry = "main" =>
        \A i \in DOMAIN threads :
            \A k \in 1..Len(threads[i].calls) :
                /\ threads[i].calls[k].status = "COMPLETED"
                /\ threads[i].calls[k].outputData = "{}"

\* C11: the limit and check_existing_tasks arguments have no effect: every
\* step consume takes from a state is, from the same state, the step of a
\* consume call with any other values of the two arguments, so the calls
\* issue the same pollForTask, ackTask, execute and updateTask operations.
C11_ArgsIgnored ==
    [][\A lim \in LimitArgs : \A chk \in BOOLEAN :
          /\ ConsumePoll => ConsumePollWith(lim, chk)
          /\ ConsumeAck => ConsumeAckWith(lim, chk)]_vars

C11_Witness ==
    /\ entry = "consume"
    /\ limit = 1
    /\ ~check_existing_tasks
    /\ consumeLog.spawns = 2
    /\ Cardinality(Executors) = 2

\* A remote call of thread i has raised in its current iteration: the thread
\* has ended, or line 62's updateTask followed line 58's.
RemoteFailed(i) == threads[i].pc = "dead" \/ Len(threads[i].calls) = 2

\* C12: a failure of a remote call is never turned into a FAILED report: a
\* thread whose exec_function returned a valid result makes no updateTask
\* call but the one carrying that result, also when that call raises.
C12_RemoteFailureNotCaught ==
    \A i \in DOMAIN threads :
        IsValid(threads[i].resp)
            => /\ Len(threads[i].calls) <= 1
               /\ \A k \in 1..Len(threads[i].calls) :
                    threads[i].calls[k] =
                        Expected(threads[i].polled, threads[i].resp)

\* C13: a poller in which a remote call has failed has stopped and has made
\* no further remote call, and no poller is spawned in its place.
C13_FailedPollerStops ==
    /\ \A i \in Pollers :
         RemoteFailed(i)
            => /\ threads[i].pc = "dead"
               /\ Len(threads[i].calls) <= 1
    /\ entry = "start" => Cardinality(Pollers) <= SpawnCount

\* C14: a poller holds an acknowledged task that it has not yet handed to
\* updateTask only while it is inside execute: it is not back at the sleep
\* or at the next pollForTask before the updateTask call is made.
C14_PollerSequential ==
    \A i \in Pollers :
        /\ (threads[i].ack # "-" /\ Truthy(threads[i].ack)
            /\ threads[i].calls = <<>>)
              => threads[i].pc = "execute" /\ threads[i].inv = "running"
        /\ threads[i].pc \in {"poll", "ack"}
              => threads[i].inv = "none" /\ threads[i].calls = <<>>

C14_Witness ==
    \E i \in Pollers :
        /\ threads[i].pc = "sleep"
        /\ threads[i].ack = "True"
        /\ threads[i].inv = "returned"
        /\ Len(threads[i].calls) = 1

\* C15: consume does not wait for the executions it started: whenever it is
\* about to poll, it can poll, whatever the threads it spawned are doing.
C15_ConsumeDoesNotWait ==
    callerPc = "consume_poll" => ENABLED ConsumePoll

C15_Witness ==
    /\ entry = "consume"
    /\ callerPc = "returned"
    /\ \E i \in Executors : \E j \in Executors :
         /\ i # j
         /\ threads[i].pc = "execute" /\ threads[i].calls = <<>>
         /\ threads[j].pc = "execute" /\ threads[j].calls = <<>>

\* C16: against a server whose ackTask is truthy at most once per task, no
\* task is executed twice: execute is called at most once for each task, and
\* no two threads are in or past execute, or have called updateTask, for
\* the same task.
C16_NoTaskExecutedTwice ==
    /\ \A t \in Tasks : executed[t] <= 1
    /\ \A i \in DOMAIN threads : \A j \in DOMAIN threads :
         i # j =>
           /\ (threads[i].inv # "none" /\ threads[j].inv # "none")
                 => threads[i].task.taskId # threads[j].task.taskId
           /\ \A k \in 1..Len(threads[i].calls) :
              \A l \in 1..Len(threads[j].calls) :
                 threads[i].calls[k].taskId # threads[j].calls[l].taskId

C16_Witness ==
    \E i \in Pollers : \E j \in Pollers :
        /\ i # j
        /\ threads[i].pc = "ack"
        /\ threads[j].inv = "returned"
        /\ Len(threads[j].calls) >= 1
        /\ threads[j].polled.taskId = threads[i].task.taskId
        /\ executed[threads[i].task.taskId] = 1

\* C17: a poller ends only by an error of a remote call, and until then it
\* comes back to pollForTask after every iteration: whatever a poller is
\* doing, it later is at line 67 again or has ended by such an error.
C17_PollerPollsAgain ==
    \A i \in 1..MaxThreadIds :
        (i \in DOMAIN threads /\ threads[i].kind = "poller")
            ~> (i \in DOMAIN threads /\ threads[i].pc \in {"poll", "dead"})

C17_Witness ==
    \E i \in Pollers :
        /\ threads[i].pc = "sleep"
        /\ threads[i].resp = Raised
        /\ threads[i].inv = "returned"
        /\ \E j \in Pollers :
             /\ threads[j].pc = "sleep"
             /\ threads[j].ack = "False"

\* C18: a start call with wait true has not returned: it is spawning or it
\* is parked, also when it spawned no poller and when every poller it
\* spawned has ended.
C18_StartWaitNeverReturns ==
    wait => callerPc \in {"start_loop", "start_wait"}

C18_Witness ==
    /\ wait
    /\ callerPc = "start_wait"
    /\ Len(threads) = 2
    /\ \A i \in DOMAIN threads : threads[i].pc = "dead"

\* C19: when exec_function raised or returned a result that fails line 53's
\* validation, every task execute hands to updateTask is the polled task
\* with only its status changed, to FAILED.
C19_FailureChangesOnlyStatus ==
    \A i \in DOMAIN threads :
        (threads[i].resp # NoResp /\ ~IsValid(threads[i].resp))
            => \A k \in 1..Len(threads[i].calls) :
                 threads[i].calls[k] =
                     [taskId |-> threads[i].polled.taskId,
                      taskType |-> threads[i].polled.taskType,
                      status |-> "FAILED",
                      outputData |-> threads[i].polled.outputData,
                      logs |-> threads[i].polled.logs]

C19_Witness ==
    \E i \in DOMAIN threads :
        /\ threads[i].resp =
             [type |-> "dict", status |-> Absent, output |-> "{x:1}", logs |-> "[]"]
        /\ Len(threads[i].calls) = 1
        /\ threads[i].calls[1].outputData = Unset
        /\ threads[i].calls[1].logs = Unset
        /\ threads[i].calls[1].status = "FAILED"

====
